---------------------------- MODULE Spec2Model ----------------------------
(***************************************************************************)
(* A model of src/main.rs of offline-netvar-dumper-rs: the enumeration of  *)
(* the loaded modules (callback / Module::new), the signature scan         *)
(* (Module::find_pattern), the walk of the ClientClass list                *)
(* (ClientClassIterator) and the recursive Debug rendering of the          *)
(* RecvTable / RecvProp tree, and main, which chains them.                 *)
(*                                                                         *)
(* Text (a &str, a CStr) is a sequence: a pattern or a regular expression  *)
(* is a sequence of one-character strings, a module name is a sequence of  *)
(* bytes.  Memory is a function from the mapped addresses to bytes.        *)
(***************************************************************************)
EXTENDS Integers, Sequences, FiniteSets, TLC

VARIABLES
    pc,         \* where main (or the operation under study) stands
    memory,     \* the bytes of the process: mapped address -> byte
    module,     \* the Module find_pattern is called on (self)
    pattern,    \* the pattern text handed to find_pattern
    result,     \* what find_pattern returned (an Option<usize>)
    expect,     \* the byte matchers the pattern text was written from
                \* (a byte, or Wild): the scan's input, never read by it
    loader,     \* the dl_phdr_info of every loaded image, in the order
                \* dl_iterate_phdr reports them
    idx,        \* dl_iterate_phdr: the image the callback is called on next
    context,    \* the CallbackContext: modules and pagesize
    debug_build, \* the build: TRUE when overflow and debug assertions are
                \* checked (debug), FALSE when they are not (release)
    client,     \* main's client: the match, then the slot of the head pointer
    off_client, \* main's off_client: the displacement read at the match
    client_classes, \* the ClientClass structs in memory: pointer -> struct
    class_head, \* the pointer main reads at line 216: the head of the list
    iter,       \* the ClientClassIterator
    item,       \* what the iterator's next() returned last
    classes,    \* the Vec main collects: (class, table) pairs
    recv_tables, \* the RecvTable structs in memory: pointer -> struct
    prop_arrays, \* the RecvProp arrays in memory: pointer -> the structs stored
    print_idx,  \* the Debug of the Vec: the index of the pair it formats next
    stack,      \* the fmt calls of RecvTable in progress: [table, i], innermost last
    out         \* the text written so far, line by line

scanVars == <<memory, module, pattern, result, expect>>

enumVars == <<loader, idx, context, debug_build>>

mainVars == <<client, off_client>>

walkVars == <<client_classes, class_head, iter, item, classes>>

renderVars == <<recv_tables, prop_arrays, print_idx, stack, out>>

vars == <<pc, scanVars, enumVars, mainVars, walkVars, renderVars>>

(***************************************************************************)
(* Option<T>                                                               *)
(***************************************************************************)
None == [some |-> FALSE, val |-> 0]

Some(v) == [some |-> TRUE, val |-> v]

\* A pointer is a number, 0 the null pointer.
Null == 0

(***************************************************************************)
(* Sequences.                                                              *)
(***************************************************************************)
RECURSIVE Flatten(_)
Flatten(ss) == IF ss = <<>> THEN <<>> ELSE Head(ss) \o Flatten(Tail(ss))

RECURSIVE SeqsUpTo(_, _)
SeqsUpTo(S, n) ==
    IF n = 0 THEN {<<>>}
    ELSE LET shorter == SeqsUpTo(S, n - 1)
         IN  shorter \cup {Append(s, x) : s \in {t \in shorter : Len(t) = n - 1}, x \in S}

(***************************************************************************)
(* Module::find_pattern, lines 143-158.                                    *)
(***************************************************************************)
IsWhitespace(c) == c \in {" ", "\t", "\n"}

\* str::split_whitespace: the maximal runs of non-whitespace characters.
RECURSIVE SplitFrom(_, _, _)
SplitFrom(s, i, cur) ==
    IF i > Len(s) THEN (IF cur = <<>> THEN <<>> ELSE <<cur>>)
    ELSE IF IsWhitespace(s[i])
         THEN (IF cur = <<>> THEN <<>> ELSE <<cur>>) \o SplitFrom(s, i + 1, <<>>)
         ELSE SplitFrom(s, i + 1, Append(cur, s[i]))

split_whitespace(s) == SplitFrom(s, 1, <<>>)

\* The closure of line 148: a wildcard token becomes ".", any other token x
\* becomes format!("\\x{}", x).
TokenToRegex(x) ==
    IF x = <<"?">> \/ x = <<"?", "?">> THEN <<".">> ELSE <<"\\", "x">> \o x

RegexPrefix_no_s == <<"(", "?", "-", "u", ")">>

RegexPrefix == <<"(", "?", "s", "-", "u", ")">>

\* Lines 147-153: once("(?s-u)").chain(tokens.map(..)).collect().join("").
PatternToRegex(p) ==
    LET toks == split_whitespace(p)
    IN  Flatten(<<RegexPrefix>> \o [i \in 1..Len(toks) |-> TokenToRegex(toks[i])])

(***************************************************************************)
(* regex::bytes::Regex, for the expressions find_pattern builds: a flag    *)
(* group (?flags-flags), the escape \xHH and the dot.                      *)
(***************************************************************************)
HexUpper == <<"0", "1", "2", "3", "4", "5", "6", "7", "8", "9", "A", "B", "C", "D", "E", "F">>

HexLower == <<"0", "1", "2", "3", "4", "5", "6", "7", "8", "9", "a", "b", "c", "d", "e", "f">>

IsHex(c) == \E d \in 1..16 : HexUpper[d] = c \/ HexLower[d] = c

HexVal(c) == (CHOOSE d \in 1..16 : HexUpper[d] = c \/ HexLower[d] = c) - 1

RegexError == [ok |-> FALSE, items |-> <<>>]

\* The parser: re is the expression, i the position, fl the flags in force
\* ([s |-> dot matches \n, u |-> Unicode mode]), acc the items so far.
RECURSIVE ParseFlags(_, _, _, _)
ParseFlags(re, i, fl, on) ==
    IF i > Len(re) THEN [ok |-> FALSE, next |-> i, fl |-> fl]
    ELSE IF re[i] = ")" THEN [ok |-> TRUE, next |-> i + 1, fl |-> fl]
    ELSE IF re[i] = "-" THEN ParseFlags(re, i + 1, fl, FALSE)
    ELSE IF re[i] = "s" THEN ParseFlags(re, i + 1, [fl EXCEPT !.s = on], on)
    ELSE IF re[i] = "u" THEN ParseFlags(re, i + 1, [fl EXCEPT !.u = on], on)
    ELSE [ok |-> FALSE, next |-> i, fl |-> fl]

RECURSIVE ParseRegex(_, _, _, _)
ParseRegex(re, i, fl, acc) ==
    IF i > Len(re) THEN [ok |-> TRUE, items |-> acc]
    ELSE IF re[i] = "." THEN
        ParseRegex(re, i + 1, fl, Append(acc, [kind |-> "any", s |-> fl.s, u |-> fl.u, val |-> 0]))
    ELSE IF re[i] = "(" THEN
        IF i + 1 <= Len(re) /\ re[i + 1] = "?"
        THEN LET g == ParseFlags(re, i + 2, fl, TRUE)
             IN  IF g.ok THEN ParseRegex(re, g.next, g.fl, acc) ELSE RegexError
        ELSE RegexError
    ELSE IF re[i] = "\\" THEN
        IF i + 3 <= Len(re) /\ re[i + 1] = "x" /\ IsHex(re[i + 2]) /\ IsHex(re[i + 3])
        THEN ParseRegex(re, i + 4, fl,
                        Append(acc, [kind |-> "lit", s |-> fl.s, u |-> fl.u,
                                     val |-> 16 * HexVal(re[i + 2]) + HexVal(re[i + 3])]))
        ELSE RegexError
    ELSE RegexError

\* Regex::new: the default flags are Unicode on, dot-matches-newline off.
RegexNew(re) == ParseRegex(re, 1, [s |-> FALSE, u |-> TRUE], <<>>)

IsCont(hay, p) == p <= Len(hay) /\ hay[p] >= 128 /\ hay[p] <= 191

\* The length of the UTF-8 encoded scalar at hay[p], 0 when there is none.
Utf8LenAt(hay, p) ==
    IF p > Len(hay) THEN 0
    ELSE IF hay[p] < 128 THEN 1
    ELSE IF hay[p] >= 194 /\ hay[p] <= 223 /\ IsCont(hay, p + 1) THEN 2
    ELSE IF hay[p] >= 224 /\ hay[p] <= 239 /\ IsCont(hay, p + 1) /\ IsCont(hay, p + 2) THEN 3
    ELSE IF hay[p] >= 240 /\ hay[p] <= 244 /\ IsCont(hay, p + 1) /\ IsCont(hay, p + 2)
            /\ IsCont(hay, p + 3) THEN 4
    ELSE 0

\* The number of bytes item it consumes at hay[p], 0 when it does not match.
\* With Unicode off an item is one byte; with Unicode on, a literal is the
\* UTF-8 encoding of the code point and the dot is one encoded scalar.
ItemLen(it, hay, p) ==
    IF p > Len(hay) THEN 0
    ELSE IF it.kind = "lit" THEN
        IF ~it.u \/ it.val < 128 THEN (IF hay[p] = it.val THEN 1 ELSE 0)
        ELSE IF p + 1 <= Len(hay) /\ hay[p] = 192 + (it.val \div 64)
                /\ hay[p + 1] = 128 + (it.val % 64) THEN 2 ELSE 0
    ELSE IF ~it.s /\ hay[p] = 10 THEN 0
    ELSE IF ~it.u THEN 1
    ELSE Utf8LenAt(hay, p)

\* The items from the k-th on match at hay[p..].
RECURSIVE MatchFrom(_, _, _, _)
MatchFrom(items, k, hay, p) ==
    IF k > Len(items) THEN TRUE
    ELSE LET n == ItemLen(items[k], hay, p)
         IN  n > 0 /\ MatchFrom(items, k + 1, hay, p + n)

\* Regex::find(..).start(): the leftmost match, as a 0-based offset.
RegexFind(items, hay) ==
    LET starts == {o \in 0..Len(hay) : MatchFrom(items, 1, hay, o + 1)}
    IN  IF starts = {} THEN None
        ELSE Some(CHOOSE o \in starts : \A o2 \in starts : o <= o2)

\* std::slice::from_raw_parts(base, size) over the mapped bytes.
Mapped(address, size) == \A a \in address..(address + size - 1) : a \in DOMAIN memory

Slice(address, size) == [i \in 1..size |-> memory[address + i - 1]]

find_pattern_offset(self, pat) ==
    LET re == RegexNew(PatternToRegex(pat))
    IN  IF ~re.ok THEN None ELSE RegexFind(re.items, Slice(self.address, self.size))

\* find_pattern on a window that is wholly mapped.
find_pattern(self, pat) ==
    LET re == RegexNew(PatternToRegex(pat))
    IN  IF ~re.ok THEN None
        ELSE LET m == RegexFind(re.items, Slice(self.address, self.size))
             IN  IF m.some THEN Some(self.address + m.val) ELSE None

(***************************************************************************)
(* u64 arithmetic.  A word has WordBits bits; an overflowing addition      *)
(* wraps, or panics in a build with overflow checks.                       *)
(***************************************************************************)
WordBits == 6

WordMod == 2 ^ WordBits

RECURSIVE BitAnd(_, _, _)
BitAnd(x, y, bits) ==
    IF bits = 0 THEN 0
    ELSE (x % 2) * (y % 2) + 2 * BitAnd(x \div 2, y \div 2, bits - 1)

BitNot(x) == (WordMod - 1) - x

\* a + b on u64: [ok |-> no overflow, val |-> the wrapped sum].
AddU64(a, b) == [ok |-> a + b < WordMod, val |-> (a + b) % WordMod]

\* a - b on u64.
SubU64(a, b) == [ok |-> a >= b, val |-> (a - b + WordMod) % WordMod]

(***************************************************************************)
(* Module::new, lines 123-141.                                             *)
(***************************************************************************)
\* CStr::to_str: the bytes are valid UTF-8.
RECURSIVE Utf8ValidFrom(_, _)
Utf8ValidFrom(bytes, p) ==
    IF p > Len(bytes) THEN TRUE
    ELSE LET n == Utf8LenAt(bytes, p)
         IN  n > 0 /\ Utf8ValidFrom(bytes, p + n)

to_str(bytes) == IF Utf8ValidFrom(bytes, 1) THEN Some(bytes) ELSE None

\* Line 134 without the mask.
AlignUp_no_mask(a, pagesize) ==
    LET s == AddU64(a, pagesize)
        t == SubU64(s.val, 1)
    IN  [ok |-> s.ok /\ t.ok, val |-> t.val]

\* Line 134: (a + pagesize - 1) & !(pagesize - 1).
AlignUp(a, pagesize) ==
    LET s == AddU64(a, pagesize)
        t == SubU64(s.val, 1)
        m == SubU64(pagesize, 1)
    IN  [ok |-> s.ok /\ t.ok /\ m.ok, val |-> BitAnd(t.val, BitNot(m.val), WordBits)]

\* Lines 131-134 for one program header e: every header is taken, whatever
\* its p_type.
SegmentEnd(e, pagesize) ==
    LET a == AddU64(e.p_vaddr, e.p_memsz)
        r == AlignUp(a.val, pagesize)
    IN  [ok |-> a.ok /\ r.ok, val |-> r.val]

SeqMax(S) == CHOOSE x \in S : \A y \in S : y <= x

\* Module::new: [kind |-> "some", module |-> ..], "none" (the ? operators),
\* or "panic" (an overflow, in a build that checks it).  dlpi_phdr is the
\* array of the dlpi_phnum headers, so dlpi_phdr.add(i) is never null.
NoModule == [address |-> 0, size |-> 0, name |-> <<>>]

ModuleNew(info, pagesize, checks) ==
    LET name == to_str(info.dlpi_name)
        ends == [i \in 1..Len(info.dlpi_phdr) |-> SegmentEnd(info.dlpi_phdr[i], pagesize)]
    IN  IF ~name.some THEN [kind |-> "none", module |-> NoModule]
        ELSE IF checks /\ \E i \in 1..Len(ends) : ~ends[i].ok
             THEN [kind |-> "panic", module |-> NoModule]
        ELSE IF Len(ends) = 0 THEN [kind |-> "none", module |-> NoModule]
        ELSE [kind |-> "some",
              module |-> [address |-> info.dlpi_addr,
                          size |-> SeqMax({ends[i].val : i \in 1..Len(ends)}),
                          name |-> name.val]]

(***************************************************************************)
(* callback, lines 161-181, under dl_iterate_phdr, line 195.               *)
(***************************************************************************)
\* A callback that goes on to the next image whatever Module::new returned.
callback_rc_skip(r) == 0

\* Lines 175-180: 0 when the module was built and inserted, 1 otherwise.
callback_rc(r) == IF r.kind = "some" THEN 0 ELSE 1

\* One call of the callback by dl_iterate_phdr, on the image idx: a non-zero
\* return ends the iteration, a panic in the callback (which is extern "C")
\* aborts the process.
Callback ==
    /\ pc = "enumerate"
    /\ idx <= Len(loader)
    /\ LET r == ModuleNew(loader[idx], context.pagesize, debug_build)
       IN  IF r.kind = "panic"
           THEN pc' = "abort" /\ UNCHANGED <<idx, context>>
           ELSE /\ context' = IF r.kind = "some"
                              THEN [context EXCEPT !.modules = <<r.module>> \o @]
                              ELSE context
                /\ IF callback_rc(r) = 0
                   THEN idx' = idx + 1 /\ pc' = pc
                   ELSE idx' = idx /\ pc' = "enumerated"
    /\ UNCHANGED <<loader, debug_build, mainVars, scanVars, walkVars, renderVars>>

\* dl_iterate_phdr has called the callback on every image.
DlIterateEnd ==
    /\ pc = "enumerate"
    /\ idx > Len(loader)
    /\ pc' = "enumerated"
    /\ UNCHANGED <<enumVars, mainVars, scanVars, walkVars, renderVars>>

\* CallbackContext::new, lines 110-119.
ContextNew(pagesize) == [modules |-> <<>>, pagesize |-> pagesize]

WalkIdle ==
    /\ client_classes = <<>>
    /\ class_head = Null
    /\ iter = [current |-> Null]
    /\ item = None
    /\ classes = <<>>

RenderIdle ==
    /\ recv_tables = <<>>
    /\ prop_arrays = <<>>
    /\ print_idx = 1
    /\ stack = <<>>
    /\ out = <<>>

MainIdle ==
    /\ client = 0
    /\ off_client = 0

EnumIdle ==
    /\ loader = <<>>
    /\ idx = 1
    /\ context = ContextNew(4)
    /\ debug_build = FALSE
    /\ MainIdle

(***************************************************************************)
(* The enumeration on its own.                                             *)
(***************************************************************************)
MaxImages == 3

PageSizes == {4, 8}

Load(vaddr, memsz) == [p_type |-> "PT_LOAD", p_vaddr |-> vaddr, p_memsz |-> memsz]

Other(vaddr, memsz) == [p_type |-> "PT_NOTE", p_vaddr |-> vaddr, p_memsz |-> memsz]

\* Program header tables: none, one or two headers, ends that are or are not
\* page multiples, sums that overflow a word, headers that are not loadable.
PhdrTables ==
    {<<>>,
     <<Load(0, 1)>>,
     <<Load(17, 7), Load(0, 1)>>,
     <<Load(WordMod - 7, 7)>>,
     <<Load(0, 1), Load(WordMod - 3, 1)>>,
     <<Load(0, 1), Other(20, 3)>>,
     <<Other(0, 0)>>}

\* Names as the loader gives them: "a", and a byte string that is no UTF-8.
ValidNames == {<<97>>}

InvalidNames == {<<255, 97>>}

\* Module::new returns on a name that is no UTF-8 before it reads the program
\* headers: two tables are enough for such a name.
EnumImages ==
    {[dlpi_name |-> n, dlpi_phdr |-> t] : n \in ValidNames, t \in PhdrTables}
    \cup {[dlpi_name |-> n, dlpi_phdr |-> t] : n \in InvalidNames, t \in {<<>>, <<Load(0, 1)>>}}

\* The k-th image is loaded at 4096 * k.
LoadedAt(images) ==
    [k \in 1..Len(images) |->
        [dlpi_addr |-> 4096 * k, dlpi_name |-> images[k].dlpi_name,
         dlpi_phdr |-> images[k].dlpi_phdr]]

ScanIdle ==
    /\ memory = <<>>
    /\ module = NoModule
    /\ pattern = <<>>
    /\ result = None
    /\ expect = <<>>

InitEnum ==
    /\ pc = "enumerate"
    /\ \E images \in SeqsUpTo(EnumImages, MaxImages) : loader = LoadedAt(images)
    /\ idx = 1
    /\ \E p \in PageSizes : context = ContextNew(p)
    /\ debug_build \in BOOLEAN
    /\ MainIdle
    /\ ScanIdle
    /\ WalkIdle
    /\ RenderIdle

NextEnum == Callback \/ DlIterateEnd

SpecEnum == InitEnum /\ [][NextEnum]_vars

(***************************************************************************)
(* The enumeration's claims.                                               *)
(***************************************************************************)
\* The images the callback was called on and returned 0 for, or not.
ModuleOf(k) == {i \in 1..Len(context.modules) : context.modules[i].address = loader[k].dlpi_addr}

Present(k) == ModuleOf(k) # {}

\* An image the claims call unresolvable: no segment, or a name that cannot
\* be decoded.
Unresolvable(info) == Len(info.dlpi_phdr) = 0 \/ info.dlpi_name \in InvalidNames

FirstUnresolvable ==
    LET bad == {k \in 1..Len(loader) : Unresolvable(loader[k])}
    IN  IF bad = {} THEN 0 ELSE CHOOSE k \in bad : \A j \in bad : k <= j

\* C3: every Module in context.modules has a size that is a multiple of the
\* context's page size.
C3_SizePageMultiple ==
    \A i \in 1..Len(context.modules) : context.modules[i].size % context.pagesize = 0

\* Two modules are stored, one of them from a segment end that is not a page
\* multiple and spans more than one page.
C3_Witness ==
    /\ pc = "enumerated" /\ Len(context.modules) >= 2
    /\ \E k \in 1..Len(loader) :
          /\ Present(k)
          /\ \E i \in ModuleOf(k) : context.modules[i].size > context.pagesize
          /\ \E j \in 1..Len(loader[k].dlpi_phdr) :
                (loader[k].dlpi_phdr[j].p_vaddr + loader[k].dlpi_phdr[j].p_memsz)
                    % context.pagesize # 0

\* C7, as claimed: once the enumeration has returned, every unresolvable image
\* is absent and every other image of the loader, before or after it, is
\* present.
C7_SkippedOthersPresent ==
    pc = "enumerated" =>
        \A k \in 1..Len(loader) : Present(k) <=> ~Unresolvable(loader[k])

\* C7, amended: the enumeration stops at the first unresolvable image; that
\* image is absent, the images before it are present and the images after it
\* are absent.
C7_StopsAtFirstUnresolvable ==
    (pc = "enumerated" /\ FirstUnresolvable # 0) =>
        /\ idx = FirstUnresolvable
        /\ \A k \in 1..Len(loader) : Present(k) <=> k < FirstUnresolvable

\* The enumeration has stopped at an unresolvable image that has a resolvable
\* image before it and one after it.
C7_Witness ==
    /\ pc = "enumerated" /\ FirstUnresolvable = 2 /\ Len(loader) = 3
    /\ ~Unresolvable(loader[3])
    /\ Present(1) /\ ~Present(2) /\ ~Present(3)

\* (x rounded up to the next multiple of p), on the integers.
RoundUpToPage(x, p) == ((x + p - 1) \div p) * p

Loadable(info) == {j \in 1..Len(info.dlpi_phdr) : info.dlpi_phdr[j].p_type = "PT_LOAD"}

\* C10, as claimed: the size of an image's Module is the maximum over its
\* loadable segments of (p_vaddr + p_memsz) rounded up to the page size.
\* Stated for the images none of whose sums leaves the word.
C10_SizeFromLoadableOnly ==
    \A k \in 1..Len(loader) :
        LET info == loader[k]
            fits == \A j \in 1..Len(info.dlpi_phdr) :
                        info.dlpi_phdr[j].p_vaddr + info.dlpi_phdr[j].p_memsz
                            + context.pagesize < WordMod
        IN  (Present(k) /\ fits /\ Loadable(info) # {}) =>
                \A i \in ModuleOf(k) :
                    context.modules[i].size =
                        SeqMax({RoundUpToPage(info.dlpi_phdr[j].p_vaddr + info.dlpi_phdr[j].p_memsz,
                                              context.pagesize) : j \in Loadable(info)})

(***************************************************************************)
(* ClientClassIterator, lines 74-87, and the collect of main, lines        *)
(* 218-223.  A pointer is a number, 0 the null pointer.                    *)
(***************************************************************************)
\* <*const T>::as_ref: None for the null pointer.
as_ref(ptr) == IF ptr = Null THEN None ELSE Some(ptr)

\* ClientClassIterator::next: [item |-> what next() returns, iter |-> the
\* iterator afterwards].
IterNext(it) ==
    LET v == as_ref(it.current)
    IN  IF v.some
        THEN [item |-> Some(v.val), iter |-> [current |-> client_classes[v.val].m_pNext]]
        ELSE [item |-> None, iter |-> it]

\* Lines 220-222 on one item: the pair (c, t) when the class pointer and its
\* m_pRecvTable are both non-null, None otherwise.
ClassAndTable(c) ==
    IF ~as_ref(c).some THEN None
    ELSE LET r == as_ref(client_classes[c].m_pRecvTable)
         IN  IF r.some THEN Some([c |-> c, t |-> r.val]) ELSE None

\* A collect that puts each new item first.
VecPush_front(v, x) == <<x>> \o v

\* collect::<Vec<_>>() taking one more item.
VecPush(v, x) == Append(v, x)

\* The Vec cannot grow beyond MaxVecLen items: the allocation fails and the
\* process aborts.
MaxVecLen == 4

\* The collect loop of lines 219-223 calls next(): on None the Vec is complete
\* and main goes on to print it.
WalkNext ==
    /\ pc = "walk"
    /\ LET n == IterNext(iter)
       IN  /\ iter' = n.iter
           /\ item' = n.item
           /\ pc' = IF n.item.some THEN "collect" ELSE "print"
    /\ UNCHANGED <<client_classes, class_head, classes, scanVars, enumVars, mainVars, renderVars>>

\* The item goes through the adapters of lines 220-222 and, when it has a
\* table, into the Vec.
WalkCollect ==
    /\ pc = "collect"
    /\ LET p == ClassAndTable(item.val)
       IN  IF ~p.some THEN classes' = classes /\ pc' = "walk"
           ELSE IF Len(classes) >= MaxVecLen
                THEN classes' = classes /\ pc' = "oom"
                ELSE classes' = VecPush(classes, p.val) /\ pc' = "walk"
    /\ item' = None
    /\ UNCHANGED <<client_classes, class_head, iter, scanVars, enumVars, mainVars, renderVars>>

(***************************************************************************)
(* The walk on its own: MaxNodes structs at the pointers 1..MaxNodes, any  *)
(* m_pNext among them or null (so cycles too), a table (the pointer 101)   *)
(* or none; the head is null or the struct at 1 (every other head is one   *)
(* of these lists with the structs renumbered).                            *)
(***************************************************************************)
MaxNodes == 3

NodePtrs == 1..MaxNodes

TablePtrChoices == {Null, 101}

InitWalk ==
    /\ pc = "walk"
    /\ client_classes \in
          [NodePtrs -> [m_pNext : NodePtrs \cup {Null}, m_pRecvTable : TablePtrChoices]]
    /\ class_head \in {Null, 1}
    /\ iter = [current |-> class_head]
    /\ item = None
    /\ classes = <<>>
    /\ ScanIdle
    /\ EnumIdle
    /\ RenderIdle

NextWalk == WalkNext \/ WalkCollect

SpecWalk == InitWalk /\ [][NextWalk]_vars

\* main runs on: a step that can be taken is taken.
SpecWalkFair == SpecWalk /\ WF_vars(NextWalk)

(***************************************************************************)
(* The walk's claims.                                                      *)
(***************************************************************************)
\* The list from p in traversal order, up to the first repeated node.
RECURSIVE ChainFrom(_, _)
ChainFrom(p, seen) ==
    IF p = Null \/ p \in seen THEN <<>>
    ELSE <<p>> \o ChainFrom(client_classes[p].m_pNext, seen \cup {p})

Chain == ChainFrom(class_head, {})

\* The pairs of the nodes of ch that have a table, in the order of ch.
RECURSIVE WithTables(_)
WithTables(ch) ==
    IF ch = <<>> THEN <<>>
    ELSE LET c == Head(ch)
             t == client_classes[c].m_pRecvTable
         IN  (IF t = Null THEN <<>> ELSE <<[c |-> c, t |-> t]>>) \o WithTables(Tail(ch))

\* C4, as claimed: the walk of a null-terminated list of n descriptors gives
\* n descriptors, one per node, in list order, the nodes without a table
\* included.
C4_OnePerNode ==
    pc = "print" =>
        /\ Len(classes) = Len(Chain)
        /\ \A i \in 1..Len(classes) : classes[i].c = Chain[i]

\* C4, amended: the result holds, in list order, exactly the nodes whose
\* m_pRecvTable is not null, each with its table.
C4_NodesWithTableInOrder == pc = "print" => classes = WithTables(Chain)

\* A finished walk of a 3-node list whose middle node has no table.
C4_Witness ==
    /\ pc = "print" /\ Len(Chain) = 3 /\ Len(classes) = 2
    /\ client_classes[Chain[2]].m_pRecvTable = Null
    /\ classes[1].c = Chain[1] /\ classes[2].c = Chain[3]

\* C6, as claimed: the walk along m_pNext is bounded, so it comes to an end
\* on a list whose m_pNext pointers form a cycle too.
C6_WalkEnds == <>(pc \notin {"walk", "collect"})

(***************************************************************************)
(* println!("{:#?}", classes), line 225: the Debug of the Vec formats each *)
(* pair; the Debug of RecvTable (lines 37-47) formats the RecvProps        *)
(* 0..m_nProps of m_pProps, and the Debug of RecvProp (lines 49-60)        *)
(* formats the table of a property that has one.  The recursion is the     *)
(* stack of the RecvTable::fmt calls in progress.                          *)
(***************************************************************************)
Line(kind, depth, name, offset, table) ==
    [kind |-> kind, depth |-> depth, name |-> name, offset |-> offset, table |-> table]

Top == stack[Len(stack)]

\* The frame below the new top has gone on to its next property.
Advance(st) == [st EXCEPT ![Len(st)].i = @ + 1]

\* The range 0..m_nProps of line 42 still holds the index of the top frame.
InRange(fr) == fr.i < recv_tables[fr.table].m_nProps

\* m_pProps.add(i) points to a RecvProp that is stored.
Stored(fr) ==
    LET t == recv_tables[fr.table]
    IN  t.m_pProps # Null /\ fr.i < Len(prop_arrays[t.m_pProps])

PropAt(fr) == prop_arrays[recv_tables[fr.table].m_pProps][fr.i + 1]

\* The call stack holds MaxStackDepth nested fmt calls of RecvTable and no
\* more: one more overflows it and the process is killed.
MaxStackDepth == 4

\* The Debug of the Vec comes to its next pair: the ClientClass is written
\* (derived Debug: its fields, the pointers as numbers) and the fmt of its
\* RecvTable is entered.
PrintClass ==
    /\ pc = "print"
    /\ stack = <<>>
    /\ print_idx <= Len(classes)
    /\ out' = Append(out, Line("class", 0, "ClientClass", classes[print_idx].c, ""))
    /\ stack' = <<[table |-> classes[print_idx].t, i |-> 0]>>
    /\ print_idx' = print_idx + 1
    /\ UNCHANGED <<pc, recv_tables, prop_arrays, scanVars, enumVars, mainVars, walkVars>>

\* Every pair is written: println! returns and main ends.
PrintDone ==
    /\ pc = "print"
    /\ stack = <<>>
    /\ print_idx > Len(classes)
    /\ pc' = "done"
    /\ UNCHANGED <<renderVars, scanVars, enumVars, mainVars, walkVars>>

\* RecvProp::fmt on the next property of the innermost table: a property
\* with a table writes its line and enters RecvTable::fmt of that table, with
\* no limit on the depth but the call stack.
RenderProp ==
    /\ pc = "print"
    /\ stack # <<>>
    /\ InRange(Top) /\ Stored(Top)
    /\ LET prop == PropAt(Top)
           child == as_ref(prop.m_pDataTable)
       IN  IF child.some
           THEN /\ out' = Append(out, Line("table", Len(stack), prop.m_pVarName, prop.m_Offset,
                                          recv_tables[child.val].m_pNetTableName))
                /\ IF Len(stack) >= MaxStackDepth
                   THEN pc' = "stack_overflow" /\ stack' = stack
                   ELSE pc' = pc /\ stack' = Append(Advance(stack), [table |-> child.val, i |-> 0])
           ELSE /\ out' = Append(out, Line("prop", Len(stack), prop.m_pVarName, prop.m_Offset, ""))
                /\ stack' = Advance(stack)
                /\ pc' = pc
    /\ UNCHANGED <<recv_tables, prop_arrays, print_idx, scanVars, enumVars, mainVars, walkVars>>

\* m_pProps is null and i is 0: add(0) is null, as_ref gives None and
\* filter_map drops the index.
RenderNullProp ==
    /\ pc = "print"
    /\ stack # <<>>
    /\ InRange(Top)
    /\ recv_tables[Top.table].m_pProps = Null /\ Top.i = 0
    /\ stack' = Advance(stack)
    /\ UNCHANGED <<pc, out, recv_tables, prop_arrays, print_idx, scanVars, enumVars, mainVars, walkVars>>

\* m_nProps counts more RecvProps than are stored: the fmt reads a RecvProp
\* that is not there.  The read faults, or gives bytes that are no property.
RenderOutOfBounds ==
    /\ pc = "print"
    /\ stack # <<>>
    /\ InRange(Top) /\ ~Stored(Top)
    /\ ~(recv_tables[Top.table].m_pProps = Null /\ Top.i = 0)
    /\ \/ /\ pc' = "segv"
          /\ UNCHANGED <<stack, out>>
       \/ /\ pc' = pc
          /\ out' = Append(out, Line("garbage", Len(stack), "", 0, ""))
          /\ stack' = Advance(stack)
    /\ UNCHANGED <<recv_tables, prop_arrays, print_idx, scanVars, enumVars, mainVars, walkVars>>

\* The range 0..m_nProps is exhausted (at once when m_nProps <= 0):
\* RecvTable::fmt returns.
RenderTableEnd ==
    /\ pc = "print"
    /\ stack # <<>>
    /\ ~InRange(Top)
    /\ stack' = SubSeq(stack, 1, Len(stack) - 1)
    /\ UNCHANGED <<pc, out, recv_tables, prop_arrays, print_idx, scanVars, enumVars, mainVars, walkVars>>

(***************************************************************************)
(* The rendering on its own: the tables 101 and 102, each with m_pProps    *)
(* null or its own array (201, 202) of up to MaxProps properties, any      *)
(* property with a table or none, m_nProps from -1 to MaxProps + 1, and a  *)
(* Vec of up to two pairs.                                                 *)
(***************************************************************************)
MaxProps == 2

TablePtrs == {101, 102}

ArrayOf(t) == t + 100

TableName(t) == IF t = 101 THEN "DT_A" ELSE "DT_B"

PropName(i) == IF i = 1 THEN "p0" ELSE IF i = 2 THEN "p1" ELSE "p2"

\* The arrays a table can have: the i-th property is named PropName(i), at
\* offset 4 * i, with the table children[i].
PropArrays ==
    {[i \in 1..Len(children) |->
        [m_pVarName |-> PropName(i), m_Offset |-> 4 * i, m_pDataTable |-> children[i]]] :
        children \in SeqsUpTo(TablePtrs \cup {Null}, MaxProps)}

InitRender ==
    /\ pc = "print"
    /\ prop_arrays \in [{ArrayOf(t) : t \in TablePtrs} -> PropArrays]
    /\ \E counts \in [TablePtrs -> -1..(MaxProps + 1)], hasProps \in [TablePtrs -> BOOLEAN] :
          /\ recv_tables =
                [t \in TablePtrs |->
                    [m_pProps |-> IF hasProps[t] THEN ArrayOf(t) ELSE Null,
                     m_nProps |-> counts[t], m_pNetTableName |-> TableName(t)]]
          /\ \A t \in TablePtrs : ~hasProps[t] => prop_arrays[ArrayOf(t)] = <<>>
    /\ \E ts \in SeqsUpTo(TablePtrs, 2) : classes = [i \in 1..Len(ts) |-> [c |-> i, t |-> ts[i]]]
    /\ print_idx = 1
    /\ stack = <<>>
    /\ out = <<>>
    /\ client_classes = <<>>
    /\ class_head = Null
    /\ iter = [current |-> Null]
    /\ item = None
    /\ ScanIdle
    /\ EnumIdle

NextRender ==
    \/ PrintClass
    \/ PrintDone
    \/ RenderProp
    \/ RenderNullProp
    \/ RenderOutOfBounds
    \/ RenderTableEnd

SpecRender == InitRender /\ [][NextRender]_vars

(***************************************************************************)
(* The rendering's claims.                                                 *)
(***************************************************************************)
\* The tables the properties 0..m_nProps-1 of t that are stored point to.
Children(t) ==
    LET tab == recv_tables[t]
    IN  IF tab.m_pProps = Null THEN {}
        ELSE {prop_arrays[tab.m_pProps][i].m_pDataTable :
                 i \in {j \in 1..Len(prop_arrays[tab.m_pProps]) : j <= tab.m_nProps}} \ {Null}

RECURSIVE ReachFrom(_)
ReachFrom(S) ==
    LET more == S \cup UNION {Children(t) : t \in S}
    IN  IF more = S THEN S ELSE ReachFrom(more)

\* The tables below t, and t itself when a chain of child tables leads back.
Below(t) == ReachFrom(Children(t))

\* A is a child table of B and B of A, and neither is its own child.
MutualChain ==
    /\ 102 \in Children(101) /\ 101 \in Children(102)
    /\ 101 \notin Children(101) /\ 102 \notin Children(102)

\* C5, as claimed: on a chain A -> B -> A the recursion stops at a depth
\* bound and the rendering terminates; it does not recurse until the call
\* stack is exhausted.
C5_RecursionBounded == MutualChain => pc # "stack_overflow"

\* The declared count of t is the number of properties stored.
CountAgrees(t) ==
    LET tab == recv_tables[t]
    IN  IF tab.m_pProps = Null THEN tab.m_nProps = 0
        ELSE tab.m_nProps = Len(prop_arrays[tab.m_pProps])

\* t and the tables below it have counts that agree, and no chain leads back.
WellFormed(t) ==
    /\ \A u \in {t} \cup Below(t) : CountAgrees(u) /\ u \notin Below(u)

\* The lines of a well-formed table at a depth.
RECURSIVE TableLines(_, _)
PropLines(prop, depth) ==
    IF prop.m_pDataTable = Null
    THEN <<Line("prop", depth, prop.m_pVarName, prop.m_Offset, "")>>
    ELSE <<Line("table", depth, prop.m_pVarName, prop.m_Offset,
                recv_tables[prop.m_pDataTable].m_pNetTableName)>>
         \o TableLines(prop.m_pDataTable, depth + 1)

TableLines(t, depth) ==
    IF recv_tables[t].m_pProps = Null THEN <<>>
    ELSE LET arr == prop_arrays[recv_tables[t].m_pProps]
         IN  Flatten([i \in 1..Len(arr) |-> PropLines(arr[i], depth)])

ClassLines(i) ==
    <<Line("class", 0, "ClientClass", classes[i].c, "")>> \o TableLines(classes[i].t, 1)

Occurs(sub, text) ==
    \E o \in 0..(Len(text) - Len(sub)) : SubSeq(text, o + 1, o + Len(sub)) = sub

Ended == pc \in {"done", "segv", "stack_overflow"}

NoChainLeadsBack == \A t \in TablePtrs : t \notin Below(t)

\* C9, as claimed: when a table's declared count disagrees with its storage,
\* that branch alone is halted: once the rendering has ended, every sibling
\* descriptor whose own tables are well formed is in the output, complete and
\* unchanged.
C9_SiblingsComplete ==
    (Ended /\ NoChainLeadsBack /\ \E t \in TablePtrs : ~CountAgrees(t)) =>
        \A i \in 1..Len(classes) : WellFormed(classes[i].t) => Occurs(ClassLines(i), out)

(***************************************************************************)
(* main, lines 192-218: the enumeration, the selection of the client       *)
(* module and the scan for the signature, then the two reads that lead     *)
(* from the match to the head of the ClientClass list.                     *)
(***************************************************************************)
\* "panorama_client.so", line 204.
ClientSuffix ==
    <<112, 97, 110, 111, 114, 97, 109, 97, 95, 99, 108, 105, 101, 110, 116, 46, 115, 111>>

\* "91 48 8B 05 ? ? ? ? 8B 53 14", line 205.
Signature ==
    <<"9", "1", " ", "4", "8", " ", "8", "B", " ", "0", "5", " ", "?", " ", "?", " ", "?", " ",
      "?", " ", "8", "B", " ", "5", "3", " ", "1", "4">>

\* str::ends_with.
ends_with(name, suffix) ==
    /\ Len(suffix) <= Len(name)
    /\ SubSeq(name, Len(name) - Len(suffix) + 1, Len(name)) = suffix

\* Lines 201-204: the first module of the Vec whose name ends with the suffix.
FindClientModule ==
    LET hits == {i \in 1..Len(context.modules) : ends_with(context.modules[i].name, ClientSuffix)}
    IN  IF hits = {} THEN None
        ELSE Some(context.modules[CHOOSE i \in hits : \A j \in hits : i <= j])

\* A little-endian read of n bytes at address a.
RECURSIVE ReadLE(_, _)
ReadLE(a, n) == IF n = 0 THEN 0 ELSE memory[a] + 256 * ReadLE(a + 1, n - 1)

\* Lines 201-206, the window of the selected module being mapped: no module or
\* no match is a None that unwrap() turns into a panic.
MainFindClient ==
    /\ pc = "enumerated"
    /\ LET m == FindClientModule
       IN  IF ~m.some THEN pc' = "panic" /\ client' = client
           ELSE /\ Mapped(m.val.address, m.val.size)
                /\ LET r == find_pattern(m.val, Signature)
                   IN  IF r.some THEN pc' = "matched" /\ client' = r.val
                       ELSE pc' = "panic" /\ client' = client
    /\ UNCHANGED <<off_client, scanVars, enumVars, walkVars, renderVars>>

\* The bytes of the window that can be read before the first unmapped one.
RECURSIVE ReadableLen(_, _)
ReadableLen(a, size) ==
    IF size = 0 \/ a \notin DOMAIN memory THEN 0 ELSE 1 + ReadableLen(a + 1, size - 1)

\* Lines 201-206, the window running past the mapped bytes (the TODO of line
\* 124): the scan faults, unless it finds the signature before the gap.
MainFindClientGap ==
    /\ pc = "enumerated"
    /\ FindClientModule.some
    /\ LET m == FindClientModule.val
       IN  /\ ~Mapped(m.address, m.size)
           /\ \/ pc' = "segv" /\ client' = client
              \/ LET r == find_pattern([m EXCEPT !.size = ReadableLen(m.address, m.size)],
                                       Signature)
                 IN  r.some /\ pc' = "matched" /\ client' = r.val
    /\ UNCHANGED <<off_client, scanVars, enumVars, walkVars, renderVars>>

\* Lines 210-214: the u32 at the match + 4, and the slot it leads to.  A read
\* through a misaligned pointer may be caught in a debug build.
MainReadOffset ==
    /\ pc = "matched"
    /\ \/ /\ off_client' = ReadLE(client + 4, 4)
          /\ client' = off_client' + client + 8
          /\ pc' = "deref"
       \/ /\ debug_build /\ (client + 4) % 4 # 0
          /\ pc' = "abort"
          /\ UNCHANGED <<client, off_client>>
    /\ UNCHANGED <<scanVars, enumVars, walkVars, renderVars>>

\* Lines 215-218: client is now a pointer to the slot.  as_ref() tests it for
\* null; client.read() takes the pointer stored in the slot and reads the head
\* of the list through it.  The slot, the place its pointer leads to, or the
\* struct the head points to, may not be mapped.
MainReadHead ==
    /\ pc = "deref"
    /\ IF ~as_ref(client).some THEN pc' = "done" /\ UNCHANGED <<class_head, iter>>
       ELSE IF ~Mapped(client, 8) \/ ~Mapped(ReadLE(client, 8), 8)
            THEN pc' = "segv" /\ UNCHANGED <<class_head, iter>>
       ELSE LET class == ReadLE(ReadLE(client, 8), 8)
            IN  IF class # Null /\ class \notin DOMAIN client_classes
                THEN pc' = "segv" /\ UNCHANGED <<class_head, iter>>
                ELSE /\ class_head' = class
                     /\ iter' = [current |-> class]
                     /\ pc' = "walk"
    /\ UNCHANGED <<client_classes, item, classes, mainVars, scanVars, enumVars, renderVars>>

(***************************************************************************)
(* main up to the walk: up to two images, each with a name, a program      *)
(* header table and the bytes mapped at its address.                       *)
(***************************************************************************)
\* "client_panorama_client.so", "libc.so.6", and a name that is no UTF-8.
MainNames ==
    {<<99, 108, 105, 101, 110, 116, 95, 112, 97, 110, 111, 114, 97, 109, 97, 95, 99, 108, 105,
       101, 110, 116, 46, 115, 111>>,
     <<108, 105, 98, 99, 46, 115, 111, 46, 54>>,
     <<255, 97>>}

Zeros(n) == [i \in 1..n |-> 0]

\* 32 bytes: pad bytes, the signature with the displacement off, at the
\* offset 16 the 8 bytes of the pointer ptr and at the offset 24 the 8 bytes
\* of the head pointer.  4120 is the offset 24 of the first image.
Image(pad, off, ptr, head) ==
    LET front == Zeros(pad) \o <<145, 72, 139, 5, off, 0, 0, 0, 139, 83, 20>>
    IN  front \o Zeros(16 - Len(front)) \o <<ptr % 256, ptr \div 256, 0, 0, 0, 0, 0, 0>>
              \o <<head, 0, 0, 0, 0, 0, 0, 0>>

MainContents ==
    {Image(0, 8, 4120, 1), Image(1, 7, 4120, Null), Image(0, 8, 4120, 77), Image(0, 8, Null, 1),
     Image(0, 200, 4120, 1), Zeros(32), SubSeq(Image(0, 8, 4120, 1), 1, 24), Zeros(24)}

MainImages ==
    {[dlpi_name |-> n, dlpi_phdr |-> t, bytes |-> c] :
        n \in MainNames, t \in {<<>>, <<Load(0, 29)>>, <<Load(0, 1)>>}, c \in MainContents}

\* The memory of the images: the bytes of the k-th image at 4096 * k.
MemoryOf(images) ==
    [a \in UNION {(4096 * k)..(4096 * k + Len(images[k].bytes) - 1) : k \in 1..Len(images)}
        |-> images[a \div 4096].bytes[(a % 4096) + 1]]

InitLocate ==
    /\ pc = "enumerate"
    /\ \E images \in SeqsUpTo(MainImages, 2) :
          /\ loader = LoadedAt(images)
          /\ memory = MemoryOf(images)
    /\ idx = 1
    /\ \E p \in PageSizes : context = ContextNew(p)
    /\ debug_build \in BOOLEAN
    /\ MainIdle
    /\ module = NoModule
    /\ pattern = <<>>
    /\ result = None
    /\ expect = <<>>
    /\ client_classes = [n \in {1} |-> [m_pNext |-> Null, m_pRecvTable |-> Null]]
    /\ class_head = Null
    /\ iter = [current |-> Null]
    /\ item = None
    /\ classes = <<>>
    /\ RenderIdle

NextLocate ==
    \/ Callback
    \/ DlIterateEnd
    \/ MainFindClient
    \/ MainFindClientGap
    \/ MainReadOffset
    \/ MainReadHead

SpecLocate == InitLocate /\ [][NextLocate]_vars

(***************************************************************************)
(* main's claim.                                                           *)
(***************************************************************************)
\* No enumerated module's name ends with the suffix.
ModuleNotFound == pc # "enumerate" /\ ~FindClientModule.some

\* The selected module's window is mapped and does not hold the signature.
PatternNotFound ==
    /\ pc # "enumerate" /\ FindClientModule.some
    /\ Mapped(FindClientModule.val.address, FindClientModule.val.size)
    /\ ~find_pattern(FindClientModule.val, Signature).some

\* C8, as claimed: with no module for the suffix, or no match of the
\* signature, main ends in a recoverable error that names the stage that
\* failed; it does not panic and does not go on to the pointer arithmetic.
C8_RecoverableStageError ==
    /\ ModuleNotFound => pc \in {"enumerated", "abort", "module_not_found"}
    /\ PatternNotFound => pc \in {"enumerated", "abort", "pattern_not_found"}

(***************************************************************************)
(* The scan on its own: a synthetic buffer at a base address, a pattern.   *)
(***************************************************************************)
MaxBufLen == 4

MaxPatLen == 3

ScanBytes == {10, 128, 170}

Wild == -1

\* A token as the caller writes it, and the matcher it stands for.
ScanTokens ==
    {[text |-> <<"8", "0">>, m |-> 128], [text |-> <<"A", "A">>, m |-> 170],
     [text |-> <<"?">>, m |-> Wild], [text |-> <<"?", "?">>, m |-> Wild]}

ScanBases == {64}

\* The pattern text of a token sequence: the tokens separated by sep.
RECURSIVE JoinTokens(_, _)
JoinTokens(toks, sep) ==
    IF toks = <<>> THEN <<>>
    ELSE IF Len(toks) = 1 THEN toks[1]
    ELSE toks[1] \o sep \o JoinTokens(Tail(toks), sep)

BufferAt(base, B) == [a \in base..(base + Len(B) - 1) |-> B[a - base + 1]]

\* The example of the specification: "AA BB ? ? CC" on two buffers.
ExamplePattern == <<"A", "A", " ", "B", "B", " ", "?", " ", "?", " ", "C", "C">>

ExampleHit == <<170, 187, 1, 2, 204, 221>>

ExampleMiss == <<170, 187, 1, 2, 206>>

ExampleExpect == <<170, 187, Wild, Wild, 204>>

ScanInputs ==
    {[B |-> B, P |-> JoinTokens([i \in 1..Len(toks) |-> toks[i].text], <<" ">>),
      E |-> [i \in 1..Len(toks) |-> toks[i].m]] :
        B \in SeqsUpTo(ScanBytes, MaxBufLen), toks \in SeqsUpTo(ScanTokens, MaxPatLen)}
    \cup {[B |-> ExampleHit, P |-> ExamplePattern, E |-> ExampleExpect],
          [B |-> ExampleMiss, P |-> ExamplePattern, E |-> ExampleExpect],
          [B |-> <<0, 255, 170>>, E |-> <<Wild, Wild, 170>>,
           P |-> <<" ", "?", "\t", " ", "?", "?", " ", "a", "a", "\n">>],
          [B |-> <<255, 10, 255, 10, 0>>, E |-> <<10, 0>>, P |-> <<"0", "A", " ", "0", "0">>],
          [B |-> <<10, 255, 0>>, E |-> <<255, 10>>, P |-> <<"f", "F", " ", "0", "a">>]}

InitScan ==
    /\ pc = "scan"
    /\ \E in \in ScanInputs, base \in ScanBases :
          /\ memory = BufferAt(base, in.B)
          /\ module = [address |-> base, size |-> Len(in.B), name |-> <<>>]
          /\ pattern = in.P
          /\ expect = in.E
    /\ result = None
    /\ EnumIdle
    /\ WalkIdle
    /\ RenderIdle

ScanFindPattern ==
    /\ pc = "scan"
    /\ Mapped(module.address, module.size)
    /\ result' = find_pattern(module, pattern)
    /\ pc' = "scanned"
    /\ UNCHANGED <<memory, module, pattern, expect, enumVars, mainVars, walkVars, renderVars>>

NextScan == ScanFindPattern

SpecScan == InitScan /\ [][NextScan]_vars

(***************************************************************************)
(* The scan's claims.                                                      *)
(***************************************************************************)
\* The buffer B the scan read: the module's window of memory.
ScanBuffer == Slice(module.address, module.size)

\* The window of B at offset o satisfies the matchers E: every matcher that
\* is a byte finds that byte at its position.
WindowMatches(B, E, o) ==
    /\ o + Len(E) <= Len(B)
    /\ \A k \in 1..Len(E) : E[k] # Wild => B[o + k] = E[k]

Occurrences(B, E) == {o \in 0..Len(B) : WindowMatches(B, E, o)}

Lowest(S) == CHOOSE o \in S : \A o2 \in S : o <= o2

HasWildcard(E) == \E k \in 1..Len(E) : E[k] = Wild

\* C1: for a pattern of byte tokens only, find_pattern returns Some(addr)
\* exactly when the buffer contains the byte sequence, and then addr is
\* address + the lowest offset of an occurrence; otherwise None.
C1_ExactScan ==
    (pc = "scanned" /\ ~HasWildcard(expect)) =>
        LET occ == Occurrences(ScanBuffer, expect)
        IN  IF occ = {} THEN result = None
            ELSE result = Some(module.address + Lowest(occ))

\* A scan of a wildcard-free pattern that occurs twice, first at an offset > 0.
C1_Witness ==
    /\ pc = "scanned" /\ ~HasWildcard(expect) /\ Len(expect) >= 2
    /\ result.some /\ result.val > module.address
    /\ Cardinality(Occurrences(ScanBuffer, expect)) >= 2

\* C2: with wildcard tokens, a window matches exactly when every non-wildcard
\* position holds its byte; a wildcard position accepts every byte 0x00-0xFF;
\* "AA BB ? ? CC" matches AA BB 01 02 CC DD at offset 0 and does not match
\* AA BB 01 02 CE.
C2_WildcardScan ==
    (pc = "scanned" /\ HasWildcard(expect)) =>
        LET occ == Occurrences(ScanBuffer, expect)
            re  == RegexNew(PatternToRegex(pattern))
        IN  /\ IF occ = {} THEN result = None
               ELSE result = Some(module.address + Lowest(occ))
            /\ re.ok
            /\ \A it \in {re.items[k] : k \in 1..Len(re.items)} :
                  it.kind = "any" => \A b \in 0..255 : ItemLen(it, <<b>>, 1) = 1
            /\ (pattern = ExamplePattern /\ ScanBuffer = ExampleHit)
                  => result = Some(module.address)
            /\ (pattern = ExamplePattern /\ ScanBuffer = ExampleMiss) => result = None

\* A match in which a wildcard position holds 0x0A and another a byte >= 0x80.
C2_Witness ==
    /\ pc = "scanned" /\ result.some
    /\ \E k \in 1..Len(expect) :
          expect[k] = Wild /\ memory[result.val + k - 1] = 10
    /\ \E k \in 1..Len(expect) :
          expect[k] = Wild /\ memory[result.val + k - 1] >= 128
    /\ \E k \in 1..Len(expect) : expect[k] # Wild

=============================================================================
